---- MODULE Spec2Model ----
(***************************************************************************)
(* A model of the RagLlmBot plugin (src/main.ts): the command callback     *)
(* that reads the source documents, provisions the vector store, chunks    *)
(* and embeds the text, upserts and queries the chunks and streams the     *)
(* generated answer into the output file.                                  *)
(*                                                                         *)
(* Every await of the code is a step of the model.  Text is a sequence of  *)
(* one-character strings.  A JSON value is a record tagged with its type.  *)
(***************************************************************************)
EXTENDS Integers, Sequences, FiniteSets, TLC

VARIABLES
    pc,             \* position of the running code
    error,          \* the error the running code threw ("none" while it runs)
    text,           \* chunkText: the text argument
    size,           \* chunkText: the size argument
    overlap,        \* chunkText: the overlap argument
    start,          \* chunkText: the local start
    chunks,         \* chunkText: the local chunks
    stream,         \* the bytes of the generate response's body
    pos,            \* how many of them reader.read() has delivered
    partial,        \* the decode loop's local partial
    artifact,       \* the content of the output file
    appended,       \* the data of every adapter.append call so far, in order
    warns,          \* the number of console.warn("Stream parse error") calls
    settings,       \* this.settings
    saved,          \* the settings last written by saveSettings
    store,          \* the vector store service
    collection,     \* checkCollection: the local collection
    requests,       \* every request issued so far, in order
    inflight,       \* the requests issued and not yet answered
    awaiting,       \* whether the request pc names has been issued
    failure,        \* the first request that failed
    absent,         \* the resources the service has reported absent
    console,        \* the console.error and console.warn messages so far
    callNo,         \* which call of checkCollection is running
    resolved,       \* per finished call of checkCollection, the id it stored
    activeFile,     \* whether the workspace has an active file
    vault,          \* the files of the vault
    files,          \* the files to read
    fileIdx,        \* the file being read
    allText,        \* the text read so far
    readLog,        \* per file of the loop so far, whether it could be read
    embedIdx,       \* the embedding loop's index i
    chunkObjects,   \* the chunks with their embeddings
    userEmbedding,  \* the embedding of the user prompt
    contextText,    \* the documents retrieved
    session,        \* which of two sessions of the plugin is running
    peer            \* the state of the session that is not running

chunkVars == <<text, size, overlap, start, chunks>>
streamVars == <<stream, pos, partial, artifact, appended, warns>>
cfgVars == <<settings, saved>>
netVars == <<requests, inflight, awaiting>>
histVars == <<failure, absent, console, callNo, resolved>>
srcVars == <<activeFile, vault, files, fileIdx, allText, readLog>>
embedVars == <<embedIdx, chunkObjects, userEmbedding, contextText>>
pipeVars ==
    <<cfgVars, store, collection, netVars, histVars, srcVars, embedVars>>
raceVars == <<session, peer>>
vars == <<pc, error, chunkVars, streamVars, pipeVars, raceVars>>

(***************************************************************************)
(* Bounds of the model.                                                    *)
(***************************************************************************)
MaxTextLen == 5
MaxSize == 3
MaxOverlap == 4
MaxLines == 2
MaxCalls == 2
MaxBatch == 2

\* The chunker's loop is cut after this many chunks: a valid configuration
\* returns at most Len(text) chunks, an invalid one never returns.
MaxIter == MaxTextLen + 1

(***************************************************************************)
(* Helpers.                                                                *)
(***************************************************************************)
Min(a, b) == IF a <= b THEN a ELSE b
Max(a, b) == IF a >= b THEN a ELSE b

\* The sequences over S of length at most n.
SeqUpTo(S, n) == UNION {[1..k -> S] : k \in 0..n}

\* String.prototype.slice(from, to): a negative index counts from the end,
\* every index is clamped to 0..length, an empty range gives "".
SliceIndex(len, k) == IF k < 0 THEN Max(len + k, 0) ELSE Min(k, len)
Slice(s, from, to) ==
    LET f == SliceIndex(Len(s), from)
        t == SliceIndex(Len(s), to)
    IN  IF f >= t THEN <<>> ELSE SubSeq(s, f + 1, t)

(***************************************************************************)
(* chunkText(text, size, overlap), one loop iteration per step.            *)
(***************************************************************************)
\* Mutants: the window advances one too far, or one too little.
ChunkAdvance_TooFar(sz, ov) == sz - ov + 1
ChunkAdvance_TooShort(sz, ov) == sz - ov - 1

\* start += size - overlap
ChunkAdvance(sz, ov) == sz - ov

chunkText_loop ==
    /\ pc = "chunkText"
    /\ start < Len(text)
    /\ Len(chunks) < MaxIter
    /\ LET end == Min(start + size, Len(text))
       IN  chunks' = Append(chunks, Slice(text, start, end))
    /\ start' = start + ChunkAdvance(size, overlap)
    /\ UNCHANGED <<pc, error, text, size, overlap, streamVars, pipeVars>>
    /\ UNCHANGED raceVars

chunkText_return ==
    /\ pc = "chunkText"
    /\ ~(start < Len(text))
    /\ pc' = "chunkText_ret"
    /\ UNCHANGED <<error, chunkVars, streamVars, pipeVars>>
    /\ UNCHANGED raceVars

(***************************************************************************)
(* JSON values: a string (s: its characters), a number, an array (m: its   *)
(* items), an object (m: its members, each a key and a value) or           *)
(* undefined, what reading an absent property gives.                       *)
(***************************************************************************)
JUndef == [t |-> "undef", s |-> <<>>, m |-> <<>>]
JNum == [t |-> "num", s |-> <<>>, m |-> <<>>]
JStr(cs) == [t |-> "str", s |-> cs, m |-> <<>>]
JArr(items) == [t |-> "arr", s |-> <<>>, m |-> items]
JObj(members) == [t |-> "obj", s |-> <<>>, m |-> members]

\* The characters a line of the stream is made of.
Quote == "\""
Space == " "
Newline == "\n"

\* A parse: ok, the index after the value, the value.
ParseFail == [ok |-> FALSE, next |-> 0, val |-> JUndef]
ParseOk(n, v) == [ok |-> TRUE, next |-> n, val |-> v]

\* The first index from i on that holds no white space (Len(s) + 1 if none).
SkipWs(s, i) ==
    LET rest == {j \in i..Len(s) : s[j] # Space}
    IN  IF rest = {} THEN Max(i, Len(s) + 1)
        ELSE CHOOSE j \in rest : \A k \in rest : j <= k

\* A string literal at i: from a quote to the next quote (the lines hold no
\* backslash and no control character).
ParseString(s, i) ==
    IF i > Len(s) \/ s[i] # Quote THEN ParseFail
    ELSE LET close == {j \in (i + 1)..Len(s) : s[j] = Quote}
         IN  IF close = {} THEN ParseFail
             ELSE LET j == CHOOSE c \in close : \A k \in close : c <= k
                  IN  ParseOk(j + 1, JStr(SubSeq(s, i + 1, j - 1)))

\* A value at i.  The lines are made of braces, quotes, colons, letters and
\* spaces only, and of these JSON forms strings and objects of at most one
\* member (there is no comma): everything else is a syntax error.
RECURSIVE ParseValue(_, _)
ParseValue(s, i) ==
    IF i > Len(s) THEN ParseFail
    ELSE IF s[i] = Quote THEN ParseString(s, i)
    ELSE IF s[i] # "{" THEN ParseFail
    ELSE LET j == SkipWs(s, i + 1)
         IN  IF j <= Len(s) /\ s[j] = "}" THEN ParseOk(j + 1, JObj(<<>>))
             ELSE LET key == ParseString(s, j)
                      c == SkipWs(s, key.next)
                  IN  IF ~key.ok \/ c > Len(s) \/ s[c] # ":" THEN ParseFail
                      ELSE LET v == ParseValue(s, SkipWs(s, c + 1))
                               e == SkipWs(s, v.next)
                           IN  IF ~v.ok \/ e > Len(s) \/ s[e] # "}"
                               THEN ParseFail
                               ELSE ParseOk(e + 1,
                                       JObj(<<[key |-> key.val.s,
                                               val |-> v.val]>>))

\* JSON.parse(line): one value with white space around it, or a SyntaxError
\* (ok = FALSE).
JSONparse(s) ==
    LET v == ParseValue(s, SkipWs(s, 1))
    IN  IF v.ok /\ SkipWs(s, v.next) = Len(s) + 1 THEN v ELSE ParseFail

\* data[key]: the member's value, undefined for an object without it and for
\* a string.
GetProperty(data, key) ==
    IF data.t = "obj" /\ \E k \in 1..Len(data.m) : data.m[k].key = key
    THEN data.m[CHOOSE k \in 1..Len(data.m) : data.m[k].key = key].val
    ELSE JUndef

\* if (v): a string is truthy unless empty, an object or array always,
\* undefined never.
Truthy(v) ==
    CASE v.t = "str" -> v.s # <<>>
      [] v.t = "undef" -> FALSE
      [] OTHER -> TRUE

(***************************************************************************)
(* The decode loop of the generate response (lines 171-189).               *)
(***************************************************************************)
ResponseKey == <<"r", "e", "s", "p", "o", "n", "s", "e">>

\* partial.split("\n"): the pieces between the newlines, at least one.
RECURSIVE SplitLines(_)
SplitLines(s) ==
    LET nl == {j \in 1..Len(s) : s[j] = Newline}
    IN  IF nl = {} THEN <<s>>
        ELSE LET j == CHOOSE c \in nl : \A k \in nl : c <= k
             IN  <<SubSeq(s, 1, j - 1)>> \o SplitLines(SubSeq(s, j + 1, Len(s)))

\* !line.trim(): the line holds white space only.
IsBlank(line) == \A k \in 1..Len(line) : line[k] = Space

\* Mutant: a line JSON.parse rejects is not caught.
LineEffect_AbortOnError(acc, line) ==
    IF acc.thrown \/ IsBlank(line) THEN acc
    ELSE LET data == JSONparse(line)
             r == GetProperty(data.val, ResponseKey)
         IN  IF ~data.ok THEN [acc EXCEPT !.thrown = TRUE]
             ELSE IF ~Truthy(r) THEN acc
             ELSE IF r.t # "str" THEN [acc EXCEPT !.warns = @ + 1]
             ELSE [acc EXCEPT !.out = @ \o r.s, !.app = Append(@, r.s)]

\* Mutant: data.response is appended whenever the field is a string, the
\* empty one included.
LineEffect_EmitsEmpty(acc, line) ==
    IF IsBlank(line) THEN acc
    ELSE LET data == JSONparse(line)
             r == GetProperty(data.val, ResponseKey)
         IN  IF ~data.ok THEN [acc EXCEPT !.warns = @ + 1]
             ELSE IF r.t # "str" THEN acc
             ELSE [acc EXCEPT !.out = @ \o r.s, !.app = Append(@, r.s)]

\* Mutant: the file is written with data.response instead of appended to.
LineEffect_Overwrite(acc, line) ==
    IF IsBlank(line) THEN acc
    ELSE LET data == JSONparse(line)
             r == GetProperty(data.val, ResponseKey)
         IN  IF ~data.ok THEN [acc EXCEPT !.warns = @ + 1]
             ELSE IF ~Truthy(r) THEN acc
             ELSE IF r.t # "str" THEN [acc EXCEPT !.warns = @ + 1]
             ELSE [acc EXCEPT !.out = r.s, !.app = Append(@, r.s)]

\* What one line does to acc = [out, app, warns, thrown]: the file's content,
\* the appended data, the warnings, and whether an exception left the loop
\* body.  A blank line is skipped; a line JSON.parse rejects is caught and
\* logged; a parsed value with a truthy response is appended.  A response
\* that is no string makes adapter.append throw inside the try, which is
\* caught and logged as well.
LineEffect(acc, line) ==
    IF IsBlank(line) THEN acc
    ELSE LET data == JSONparse(line)
             r == GetProperty(data.val, ResponseKey)
         IN  IF ~data.ok THEN [acc EXCEPT !.warns = @ + 1]
             ELSE IF ~Truthy(r) THEN acc
             ELSE IF r.t # "str" THEN [acc EXCEPT !.warns = @ + 1]
             ELSE [acc EXCEPT !.out = @ \o r.s, !.app = Append(@, r.s)]

\* for (const line of lines) { ... }
RECURSIVE ProcessLines(_, _)
ProcessLines(acc, lines) ==
    IF lines = <<>> THEN acc
    ELSE ProcessLines(LineEffect(acc, Head(lines)), Tail(lines))

\* Mutant: the carry-over is parsed as a last line when the stream ends.
AtEndOfStream_FlushPartial(acc, rest) == LineEffect(acc, rest)

\* if (done) break: the carry-over is dropped.
AtEndOfStream(acc, rest) == acc

\* Mutant: nothing is carried over to the next read.
CarryOver_Dropped(lines) == <<>>

\* partial = lines.pop(): the piece after the last newline is kept.
CarryOver(lines) == lines[Len(lines)]

\* One reader.read() that delivers n bytes, and the loop body for them.
stream_read ==
    /\ pc = "stream"
    /\ \E n \in 1..(Len(stream) - pos) :
       \E lines \in {SplitLines(partial \o SubSeq(stream, pos + 1, pos + n))} :
       \E acc \in {ProcessLines(
                      [out |-> artifact, app |-> appended, warns |-> warns,
                       thrown |-> FALSE],
                      SubSeq(lines, 1, Len(lines) - 1))} :
          /\ pos' = pos + n
          /\ partial' = CarryOver(lines)
          /\ artifact' = acc.out
          /\ appended' = acc.app
          /\ warns' = acc.warns
          /\ pc' = IF acc.thrown THEN "failed" ELSE "stream"
          /\ error' = IF acc.thrown THEN "SyntaxError" ELSE error
    /\ UNCHANGED <<stream, chunkVars, pipeVars>>
    /\ UNCHANGED raceVars

\* reader.read() reports done: the loop is left and the callback returns.
stream_done ==
    /\ pc = "stream"
    /\ pos = Len(stream)
    /\ LET acc == AtEndOfStream(
                     [out |-> artifact, app |-> appended, warns |-> warns,
                      thrown |-> FALSE], partial)
       IN  /\ artifact' = acc.out
           /\ appended' = acc.app
           /\ warns' = acc.warns
    /\ pc' = "done"
    /\ UNCHANGED <<error, stream, pos, partial, chunkVars, pipeVars>>
    /\ UNCHANGED raceVars

\* reader.read() rejects (the connection breaks): the callback throws.
stream_error ==
    /\ pc = "stream"
    /\ pos < Len(stream)
    /\ pc' = "failed"
    /\ error' = "GenerationError"
    /\ UNCHANGED <<chunkVars, streamVars, pipeVars>>
    /\ UNCHANGED raceVars

(***************************************************************************)
(* The bodies of the generate response that are read.                      *)
(***************************************************************************)
ResponseLine(cs) ==
    <<"{", Quote>> \o ResponseKey \o <<Quote, ":", Quote>> \o cs \o <<Quote, "}">>

LineAB == ResponseLine(<<"a", "b">>)
LineB == ResponseLine(<<"b">>)
LineEmptyResponse == ResponseLine(<<>>)
LineNoField == <<"{", "}">>
LineTruncated == <<"{", Quote, "r", "e", "s", "p", "o", "n">>
LineBlank == <<Space>>

StreamLines ==
    {LineAB, LineB, LineEmptyResponse, LineNoField, LineTruncated, LineBlank}
StreamTails == {<<>>, LineTruncated, LineB}

RECURSIVE JoinLines(_)
JoinLines(ls) ==
    IF ls = <<>> THEN <<>> ELSE Head(ls) \o <<Newline>> \o JoinLines(Tail(ls))

Streams ==
    {JoinLines(ls) \o tail : ls \in SeqUpTo(StreamLines, MaxLines),
                             tail \in StreamTails}

Header == <<"-", "-", "-", Newline>>

\* The bodies of the generate response the callback is run with.
GenerateBodies ==
    {LineB \o <<Newline>> \o <<"{", Quote>>}

(***************************************************************************)
(* The vector store service, as the plugin sees it through chromaApi.      *)
(* store holds the tenants, the databases of the configured tenant, the    *)
(* collections of the configured database in listing order, the documents  *)
(* added (collection id and chunk id) and the number of collections the    *)
(* service has created.                                                    *)
(***************************************************************************)
DEFAULT_SETTINGS ==
    [chromaTenantName |-> "obsidian_ragllmbot",
     chromaDatabaseName |-> "obsidian_db",
     chromaCollectionName |-> "obsidian_collection",
     chromaCollectionId |-> ""]

\* The identifiers the service gives the collections it creates.
IdPool == <<"c1", "c2", "c3", "c4">>

HasTenant(st, name) == name \in st.tenants
HasDatabase(st, tenant, db) == HasTenant(st, tenant) /\ db \in st.dbs
HasCollectionId(st, id) ==
    id # "" /\ \E k \in 1..Len(st.cols) : st.cols[k].id = id

\* A response that is not ok: its status (0: fetch itself rejected) and the
\* text of its body.
Failure(status, body) == [ok |-> FALSE, status |-> status, text |-> body]
Success == [ok |-> TRUE, status |-> 200, text |-> <<>>]

Digits404 == <<"4", "0", "4">>
StatusDigits(status) ==
    CASE status = 404 -> Digits404
      [] status = 409 -> <<"4", "0", "9">>
      [] status = 500 -> <<"5", "0", "0">>

\* What may go wrong with any request: the service answers 500, with a body
\* that does or does not hold the digits 404 (an identifier, a port, a
\* quoted upstream status), or the connection fails.
Transient ==
    {Failure(500, <<>>), Failure(500, <<"i", "d", " ">> \o Digits404),
     Failure(0, <<>>)}

\* The message of the error chromaApi throws for a response that is not ok,
\* "Chroma API error (<status>): <text>", and of fetch's own TypeError.
ChromaErrorMessage(r) ==
    IF r.status = 0
    THEN <<"F", "a", "i", "l", "e", "d", " ", "t", "o", " ",
           "f", "e", "t", "c", "h">>
    ELSE <<"C", "h", "r", "o", "m", "a", " ", "A", "P", "I", " ",
           "e", "r", "r", "o", "r", " ", "(">>
             \o StatusDigits(r.status) \o <<")", ":", " ">> \o r.text

\* String.prototype.includes
Includes(s, pat) ==
    \E k \in 1..(Len(s) - Len(pat) + 1) : SubSeq(s, k, k + Len(pat) - 1) = pat

\* Mutant: the not-found test looks at the status alone.
IsNotFound_StatusOnly(r) == r.status = 404

\* err.message.includes("404")
IsNotFound(r) == Includes(ChromaErrorMessage(r), Digits404)

(***************************************************************************)
(* fetch: the request leaves.  pc names the request about to be made or    *)
(* awaited; awaiting tells which.                                          *)
(***************************************************************************)
RequestOps ==
    {"tenant.get", "tenant.create", "db.list", "db.create", "col.list",
     "col.create", "embed", "add", "embed.query", "query", "generate"}

\* The collection id in the request's path and the vectors in its body.
RequestOf(op) ==
    [op |-> op,
     id |-> IF op \in {"add", "query"} THEN settings.chromaCollectionId ELSE "",
     vectors |-> CASE op = "add" ->
                        [k \in 1..Len(chunkObjects) |-> chunkObjects[k].embedding]
                   [] op = "query" -> <<userEmbedding>>
                   [] OTHER -> <<>>]

fetch_send ==
    /\ pc \in RequestOps
    /\ ~awaiting
    /\ awaiting' = TRUE
    /\ inflight' = inflight \cup {pc}
    /\ requests' = Append(requests, RequestOf(pc))
    /\ UNCHANGED <<pc, error, cfgVars, store, collection, histVars, srcVars,
                   embedVars, chunkVars, streamVars>>
    /\ UNCHANGED raceVars

\* Mutant: the callback goes on without the request's response.
Arrived_Unawaited(op) == pc = op

\* The response to the request pc names has arrived.
Arrived(op) == pc = op /\ awaiting
Settle(op) == awaiting' = FALSE /\ inflight' = inflight \ {op}

\* The first request of the run that failed, and how many requests had been
\* issued by then.
NoFailure == [op |-> "none", nreq |-> 0]

\* The state a session of the plugin keeps for itself while checkCollection
\* runs; the service and the requests it receives are shared.  NoPeer: there
\* is no other session.
SessionState(p, e, s, sv, c, inf, aw, f, ab, con, res) ==
    [pc |-> p, error |-> e, settings |-> s, saved |-> sv, collection |-> c,
     inflight |-> inf, awaiting |-> aw, failure |-> f, absent |-> ab,
     console |-> con, resolved |-> res]
NoPeer ==
    SessionState("none", "none", DEFAULT_SETTINGS, DEFAULT_SETTINGS,
                 [name |-> "", id |-> ""], {}, FALSE, NoFailure, {}, {}, <<>>)
NoteFailure(op) ==
    failure' = IF failure.op = "none"
               THEN [op |-> op, nreq |-> Len(requests)]
               ELSE failure

(***************************************************************************)
(* checkTenant (lines 233-246).                                            *)
(***************************************************************************)
TenantGetResponses ==
    Transient \cup
        (IF HasTenant(store, settings.chromaTenantName)
         THEN {Success} ELSE {Failure(404, <<>>)})

tenant_get_resp ==
    /\ Arrived("tenant.get")
    /\ Settle("tenant.get")
    /\ \E r \in TenantGetResponses :
          IF r.ok
          THEN /\ pc' = "db.list"
               /\ UNCHANGED <<error, failure, absent, console>>
          ELSE IF IsNotFound(r)
          THEN /\ pc' = "tenant.create"
               /\ absent' = IF r.status = 404 THEN absent \cup {"tenant"}
                            ELSE absent
               /\ IF r.status = 404 THEN UNCHANGED failure
                  ELSE NoteFailure("tenant.get")
               /\ UNCHANGED <<error, console>>
          ELSE /\ console' = console \cup {"Error checking tenant"}
               /\ pc' = "failed"
               /\ error' = "tenant.get"
               /\ NoteFailure("tenant.get")
               /\ UNCHANGED absent
    /\ UNCHANGED <<cfgVars, store, collection, requests, callNo, resolved,
                   srcVars, embedVars, chunkVars, streamVars>>
    /\ UNCHANGED raceVars

TenantCreateResponses ==
    Transient \cup
        (IF HasTenant(store, settings.chromaTenantName)
         THEN {Failure(409, <<>>)} ELSE {Success})

\* The POST is made inside the catch block: its error leaves checkTenant.
tenant_create_resp ==
    /\ Arrived("tenant.create")
    /\ Settle("tenant.create")
    /\ \E r \in TenantCreateResponses :
          IF r.ok
          THEN /\ store' = [store EXCEPT
                              !.tenants = @ \cup {settings.chromaTenantName}]
               /\ pc' = "db.list"
               /\ UNCHANGED <<error, failure>>
          ELSE /\ pc' = "failed"
               /\ error' = "tenant.create"
               /\ NoteFailure("tenant.create")
               /\ UNCHANGED store
    /\ UNCHANGED <<cfgVars, collection, requests, absent, console, callNo,
                   resolved, srcVars, embedVars, chunkVars, streamVars>>
    /\ UNCHANGED raceVars

(***************************************************************************)
(* checkDatabase (lines 248-264): every error is caught and logged.        *)
(***************************************************************************)
DbListResponses ==
    Transient \cup
        (IF HasTenant(store, settings.chromaTenantName)
         THEN {Success} ELSE {Failure(404, <<>>)})

db_list_resp ==
    /\ Arrived("db.list")
    /\ Settle("db.list")
    /\ \E r \in DbListResponses :
          IF r.ok
          THEN /\ IF settings.chromaDatabaseName \in store.dbs
                  THEN pc' = "col.list" /\ UNCHANGED absent
                  ELSE pc' = "db.create" /\ absent' = absent \cup {"db"}
               /\ UNCHANGED <<failure, console>>
          ELSE /\ console' = console \cup {"Error ensuring database"}
               /\ NoteFailure("db.list")
               /\ pc' = "col.list"
               /\ UNCHANGED absent
    /\ UNCHANGED <<error, cfgVars, store, collection, requests, callNo,
                   resolved, srcVars, embedVars, chunkVars, streamVars>>
    /\ UNCHANGED raceVars

DbCreateResponses ==
    Transient \cup
        (IF ~HasTenant(store, settings.chromaTenantName)
         THEN {Failure(404, <<>>)}
         ELSE IF settings.chromaDatabaseName \in store.dbs
         THEN {Failure(409, <<>>)} ELSE {Success})

db_create_resp ==
    /\ Arrived("db.create")
    /\ Settle("db.create")
    /\ \E r \in DbCreateResponses :
          IF r.ok
          THEN /\ store' = [store EXCEPT
                              !.dbs = @ \cup {settings.chromaDatabaseName}]
               /\ UNCHANGED <<failure, console>>
          ELSE /\ console' = console \cup {"Error ensuring database"}
               /\ NoteFailure("db.create")
               /\ UNCHANGED store
    /\ pc' = "col.list"
    /\ UNCHANGED <<error, cfgVars, collection, requests, absent, callNo,
                   resolved, srcVars, embedVars, chunkVars, streamVars>>
    /\ UNCHANGED raceVars

(***************************************************************************)
(* checkCollection (lines 266-300): every error is caught and logged.      *)
(***************************************************************************)
NoCollection == [name |-> "", id |-> ""]

\* Mutant: the listing is not searched.
FindCollection_NeverFinds(cols, name) == 0

\* collections.find(c => c.name === collectionName): the index of the first
\* collection of that name, 0 for undefined.
FindCollection(cols, name) ==
    LET found == {k \in 1..Len(cols) : cols[k].name = name}
    IN  IF found = {} THEN 0
        ELSE CHOOSE k \in found : \A j \in found : k <= j

ColListResponses ==
    Transient \cup
        (IF HasDatabase(store, settings.chromaTenantName,
                        settings.chromaDatabaseName)
         THEN {Success} ELSE {Failure(404, <<>>)})

col_list_resp ==
    /\ Arrived("col.list")
    /\ Settle("col.list")
    /\ \E r \in ColListResponses :
          IF r.ok
          THEN LET k == FindCollection(store.cols, settings.chromaCollectionName)
               IN  /\ IF k # 0
                      THEN /\ collection' = store.cols[k]
                           /\ pc' = "col.store"
                           /\ UNCHANGED absent
                      ELSE /\ collection' = NoCollection
                           /\ pc' = "col.create"
                           /\ absent' = absent \cup {"col"}
                   /\ UNCHANGED <<failure, console, resolved>>
          ELSE /\ console' = console \cup {"Error ensuring collection"}
               /\ NoteFailure("col.list")
               /\ pc' = "col_ret"
               /\ resolved' = Append(resolved, "none")
               /\ UNCHANGED <<collection, absent>>
    /\ UNCHANGED <<error, cfgVars, store, requests, callNo, srcVars,
                   embedVars, chunkVars, streamVars>>
    /\ UNCHANGED raceVars

\* For a name the database holds already the service may create a second
\* collection or answer with a conflict.
ColCreateResponses ==
    Transient \cup
        (IF ~HasDatabase(store, settings.chromaTenantName,
                         settings.chromaDatabaseName)
         THEN {Failure(404, <<>>)}
         ELSE IF FindCollection(store.cols, settings.chromaCollectionName) # 0
         THEN {Success, Failure(409, <<>>)}
         ELSE {Success})

\* The service gives the new collection the next identifier of its pool, or
\* answers with an object that carries no id.
col_create_resp ==
    /\ Arrived("col.create")
    /\ Settle("col.create")
    /\ \E r \in ColCreateResponses :
          IF r.ok
          THEN \E id \in {IdPool[store.created + 1], ""} :
                  LET c == [name |-> settings.chromaCollectionName, id |-> id]
                  IN  /\ store' = [store EXCEPT !.cols = Append(@, c),
                                                !.created = @ + 1]
                      /\ collection' = c
                      /\ pc' = "col.store"
                      /\ UNCHANGED <<failure, console, resolved>>
          ELSE /\ console' = console \cup {"Error ensuring collection"}
               /\ NoteFailure("col.create")
               /\ pc' = "col_ret"
               /\ resolved' = Append(resolved, "none")
               /\ UNCHANGED <<store, collection>>
    /\ UNCHANGED <<error, cfgVars, requests, absent, callNo, srcVars,
                   embedVars, chunkVars, streamVars>>
    /\ UNCHANGED raceVars

\* Mutant: the identifier is put in the field of the name.
StoreCollectionId_InNameField(s, c) ==
    [s EXCEPT !.chromaCollectionName = c.id]

\* this.settings.chromaCollectionId = collection.id
StoreCollectionId(s, c) == [s EXCEPT !.chromaCollectionId = c.id]

\* if (collection?.id) { settings.chromaCollectionId = ...; saveSettings() }
\* else console.warn.  The write of the settings file is taken to succeed.
col_store ==
    /\ pc = "col.store"
    /\ IF collection.id # ""
       THEN /\ settings' = StoreCollectionId(settings, collection)
            /\ saved' = settings'
            /\ resolved' = Append(resolved, collection.id)
            /\ UNCHANGED console
       ELSE /\ console' = console \cup {"Collection exists but has no ID"}
            /\ resolved' = Append(resolved, "none")
            /\ UNCHANGED <<settings, saved>>
    /\ pc' = "col_ret"
    /\ UNCHANGED <<error, store, collection, netVars, failure, absent, callNo,
                   srcVars, embedVars, chunkVars, streamVars>>
    /\ UNCHANGED raceVars

\* The other session runs: the two sessions are independent processes and
\* their steps interleave in any order.
switch_session ==
    /\ peer.pc \notin {"none", "col_ret"}
    /\ session' = 3 - session
    /\ peer' = SessionState(pc, error, settings, saved, collection, inflight,
                            awaiting, failure, absent, console, resolved)
    /\ pc' = peer.pc
    /\ error' = peer.error
    /\ settings' = peer.settings
    /\ saved' = peer.saved
    /\ collection' = peer.collection
    /\ inflight' = peer.inflight
    /\ awaiting' = peer.awaiting
    /\ failure' = peer.failure
    /\ absent' = peer.absent
    /\ console' = peer.console
    /\ resolved' = peer.resolved
    /\ UNCHANGED <<store, requests, callNo, srcVars, embedVars, chunkVars,
                   streamVars>>

\* checkCollection is called again with the same arguments.
call_again ==
    /\ pc = "col_ret"
    /\ callNo < MaxCalls
    /\ callNo' = callNo + 1
    /\ pc' = "col.list"
    /\ UNCHANGED <<error, cfgVars, store, collection, netVars, failure,
                   absent, console, resolved, srcVars, embedVars, chunkVars,
                   streamVars>>
    /\ UNCHANGED raceVars

(***************************************************************************)
(* Embeddings (lines 110-120 and 125-133).                                 *)
(***************************************************************************)
\* Mutant: only the emptiness of the vector is checked.
ValidEmbedding_NonEmptyOnly(e) == e.t = "arr" /\ Len(e.m) > 0

\* Array.isArray(e) && e.length !== 0 && e.every(n => typeof n === "number")
ValidEmbedding(e) ==
    /\ e.t = "arr"
    /\ Len(e.m) > 0
    /\ \A k \in 1..Len(e.m) : e.m[k].t = "num"

\* v[0]: the first item of an array, the first character of a string,
\* undefined when there is none.
FirstOf(v) ==
    CASE v.t = "arr" /\ Len(v.m) > 0 -> v.m[1]
      [] v.t = "str" /\ Len(v.s) > 0 -> JStr(<<v.s[1]>>)
      [] OTHER -> JUndef

\* Array.isArray(r.embeddings[0]) ? r.embeddings[0] : r.embeddings
NormalizeEmbedding(embeddings) ==
    IF FirstOf(embeddings).t = "arr" THEN FirstOf(embeddings) ELSE embeddings

\* The answers of the embedding endpoint: fetch rejects, the body is no JSON,
\* the status is an error and the body carries no embeddings, or the body
\* carries embeddings of one of these shapes.
EmbeddingsFields ==
    {JArr(<<JArr(<<JNum, JNum>>)>>), JArr(<<JNum, JNum>>), JArr(<<>>),
     JArr(<<JArr(<<JNum, JStr(<<"x">>)>>)>>)}

EmbedResponses ==
    {[kind |-> "netfail", embeddings |-> JUndef],
     [kind |-> "badjson", embeddings |-> JUndef],
     [kind |-> "httperror", embeddings |-> JUndef]}
        \cup {[kind |-> "ok", embeddings |-> e] : e \in EmbeddingsFields}

\* Mutant: the chunks embedded are not upserted.
AfterEmbedding_SkipsUpsert(embedded, total) ==
    IF embedded < total THEN "embed" ELSE "embed.query"

\* for (let i = 0; i < chunks.length; i++): the next chunk's request, or,
\* past the last chunk, the call of upsertChunksToCollection.
AfterEmbedding(embedded, total) ==
    IF embedded < total THEN "embed" ELSE "upsert"

\* The chunk embedding loop: the response for chunk embedIdx.  Reading
\* embeddings[0] of a body without embeddings throws a TypeError.
embed_resp ==
    /\ Arrived("embed")
    /\ Settle("embed")
    /\ \E r \in EmbedResponses :
          IF r.kind # "ok"
          THEN /\ pc' = "failed"
               /\ error' = "embed"
               /\ NoteFailure("embed")
               /\ UNCHANGED <<embedIdx, chunkObjects>>
          ELSE LET embedding == NormalizeEmbedding(r.embeddings)
               IN  IF ~ValidEmbedding(embedding)
                   THEN /\ pc' = "failed"
                        /\ error' = "Invalid embedding"
                        /\ NoteFailure("embed")
                        /\ UNCHANGED <<embedIdx, chunkObjects>>
                   ELSE /\ chunkObjects' =
                              Append(chunkObjects,
                                     [id |-> embedIdx,
                                      text |-> chunks[embedIdx + 1],
                                      embedding |-> embedding])
                        /\ embedIdx' = embedIdx + 1
                        /\ pc' = AfterEmbedding(embedIdx + 1, Len(chunks))
                        /\ UNCHANGED <<error, failure>>
    /\ UNCHANGED <<cfgVars, store, collection, requests, absent, console,
                   callNo, resolved, srcVars, userEmbedding, contextText,
                   chunkVars, streamVars>>
    /\ UNCHANGED raceVars

\* The embedding of the user prompt: normalised, not validated.
query_embed_resp ==
    /\ Arrived("embed.query")
    /\ Settle("embed.query")
    /\ \E r \in EmbedResponses :
          IF r.kind # "ok"
          THEN /\ pc' = "failed"
               /\ error' = "embed.query"
               /\ NoteFailure("embed.query")
               /\ UNCHANGED userEmbedding
          ELSE /\ userEmbedding' = NormalizeEmbedding(r.embeddings)
               /\ pc' = "query"
               /\ UNCHANGED <<error, failure>>
    /\ UNCHANGED <<cfgVars, store, collection, requests, absent, console,
                   callNo, resolved, srcVars, embedIdx, chunkObjects,
                   contextText, chunkVars, streamVars>>
    /\ UNCHANGED raceVars

(***************************************************************************)
(* upsertChunksToCollection (lines 302-334).                               *)
(***************************************************************************)
\* Mutant: the batch passes when some chunk is valid.
BatchValid_SomeValid(batch) ==
    \E k \in 1..Len(batch) : ValidEmbedding(batch[k].embedding)

\* for (const c of chunks) if (invalid) throw
BatchValid(batch) ==
    \A k \in 1..Len(batch) : ValidEmbedding(batch[k].embedding)

\* The entry of the function: nothing to do for no chunks, a throw for a
\* malformed chunk, the request otherwise.
upsert_validate ==
    /\ pc = "upsert"
    /\ IF chunkObjects = <<>>
       THEN pc' = "upsert_ret" /\ UNCHANGED <<error, failure>>
       ELSE IF ~BatchValid(chunkObjects)
       THEN pc' = "failed" /\ error' = "Invalid embedding" /\ NoteFailure("add")
       ELSE pc' = "add" /\ UNCHANGED <<error, failure>>
    /\ UNCHANGED <<cfgVars, store, collection, netVars, absent, console,
                   callNo, resolved, srcVars, embedVars, chunkVars, streamVars>>
    /\ UNCHANGED raceVars

\* The service knows the collection by the id in the path.
AddResponses ==
    Transient \cup
        (IF HasCollectionId(store, requests[Len(requests)].id)
         THEN {Success} ELSE {Failure(404, <<>>)})

add_resp ==
    /\ Arrived("add")
    /\ Settle("add")
    /\ \E r \in AddResponses :
          IF r.ok
          THEN /\ store' = [store EXCEPT !.docs = @ \cup
                              {<<requests[Len(requests)].id, chunkObjects[k].id>> :
                                  k \in 1..Len(chunkObjects)}]
               /\ pc' = "upsert_ret"
               /\ UNCHANGED <<error, failure>>
          ELSE /\ pc' = "failed"
               /\ error' = "add"
               /\ NoteFailure("add")
               /\ UNCHANGED store
    /\ UNCHANGED <<cfgVars, collection, requests, absent, console, callNo,
                   resolved, srcVars, embedVars, chunkVars, streamVars>>
    /\ UNCHANGED raceVars

(***************************************************************************)
(* The command callback (lines 41-190) around these functions.             *)
(***************************************************************************)
DefaultSize == 500
DefaultOverlap == 50

\* A text of n characters.
Filler(n) == [k \in 1..n |-> "x"]

ActiveFolder == "notes"
NoteA == [name |-> <<"a", ".", "m", "d">>, ext |-> "md", folder |-> ActiveFolder,
          content |-> <<"a", "b">>]
PdfB == [name |-> <<"b", ".", "p", "d", "f">>, ext |-> "pdf",
         folder |-> ActiveFolder, content |-> Filler(DefaultSize)]
ImageC == [name |-> <<"c", ".", "p", "n", "g">>, ext |-> "png",
           folder |-> ActiveFolder, content |-> <<>>]
NoteElsewhere == [name |-> <<"d", ".", "m", "d">>, ext |-> "md",
                  folder |-> "elsewhere", content |-> <<"b">>]

Vaults == {<<>>, <<ImageC, NoteA>>, <<PdfB, NoteElsewhere, NoteA>>}

\* vault.getFiles().filter(f => f.parent?.path === folderPath &&
\*                              (f.extension === "md" || f.extension === "pdf"))
RECURSIVE FilterFiles(_)
FilterFiles(fs) ==
    IF fs = <<>> THEN <<>>
    ELSE (IF Head(fs).folder = ActiveFolder /\ Head(fs).ext \in {"md", "pdf"}
          THEN <<Head(fs)>> ELSE <<>>) \o FilterFiles(Tail(fs))

\* `\n\n# ${file.name}\n${content}`
FileText(f) ==
    <<Newline, Newline, "#", Space>> \o f.name \o <<Newline>> \o f.content

\* The modal's callback starts: without an active file it returns at once.
submit ==
    /\ pc = "idle"
    /\ IF ~activeFile
       THEN pc' = "returned" /\ UNCHANGED <<files, fileIdx, allText, readLog>>
       ELSE /\ files' = FilterFiles(vault)
            /\ fileIdx' = 1
            /\ allText' = <<>>
            /\ readLog' = <<>>
            /\ pc' = "read"
    /\ UNCHANGED <<error, cfgVars, store, collection, netVars, histVars,
                   activeFile, vault, embedVars, chunkVars, streamVars>>
    /\ UNCHANGED raceVars

\* Mutant: the catch block starts the text over.
AfterRead_StartsOver(all, f, readable) ==
    IF readable THEN all \o FileText(f) ELSE <<>>

\* allText after one file: its text is added when it could be read, and
\* allText is as before when the read threw.
AfterRead(all, f, readable) ==
    IF readable THEN all \o FileText(f) ELSE all

\* One file of the loop: read and appended, or its error caught and logged.
read_file ==
    /\ pc = "read"
    /\ fileIdx <= Len(files)
    /\ \E readable \in BOOLEAN :
          /\ allText' = AfterRead(allText, files[fileIdx], readable)
          /\ readLog' = Append(readLog, readable)
          /\ console' = IF readable THEN console
                        ELSE console \cup {"Error reading"}
    /\ fileIdx' = fileIdx + 1
    /\ UNCHANGED <<pc, error, cfgVars, store, collection, netVars, failure,
                   absent, callNo, resolved, activeFile, vault, files,
                   embedVars, chunkVars, streamVars>>
    /\ UNCHANGED raceVars

\* vault.create(filename, fileContent): the output file, or a throw when the
\* file cannot be created (the name holds the minute: it may exist).
create_file ==
    /\ pc = "read"
    /\ fileIdx > Len(files)
    /\ \E created \in BOOLEAN :
          IF created
          THEN artifact' = Header /\ pc' = "tenant.get" /\ UNCHANGED error
          ELSE pc' = "failed" /\ error' = "create" /\ UNCHANGED artifact
    /\ UNCHANGED <<pipeVars, chunkVars, stream, pos, partial, appended, warns>>
    /\ UNCHANGED raceVars

\* const chunks = this.chunkText(allText)
chunk_call ==
    /\ pc = "col_ret"
    /\ text' = allText
    /\ size' = DefaultSize
    /\ overlap' = DefaultOverlap
    /\ start' = 0
    /\ chunks' = <<>>
    /\ pc' = "chunkText"
    /\ UNCHANGED <<error, pipeVars, streamVars>>
    /\ UNCHANGED raceVars

\* const chunkObjects = []; for (let i = 0; i < chunks.length; i++)
embed_begin ==
    /\ pc = "chunkText_ret"
    /\ chunkObjects' = <<>>
    /\ embedIdx' = 0
    /\ pc' = AfterEmbedding(0, Len(chunks))
    /\ UNCHANGED <<error, cfgVars, store, collection, netVars, histVars,
                   srcVars, userEmbedding, contextText, chunkVars, streamVars>>
    /\ UNCHANGED raceVars

\* new Notice(`Stored ...`), then the embedding of the user prompt
upsert_return ==
    /\ pc = "upsert_ret"
    /\ pc' = "embed.query"
    /\ UNCHANGED <<error, pipeVars, chunkVars, streamVars>>
    /\ UNCHANGED raceVars

\* The query: the ranked documents, a body without documents (reading
\* documents[0] throws a TypeError), or an error.
QueryResponses ==
    Transient \cup
        (IF HasCollectionId(store, requests[Len(requests)].id)
         THEN {Success, [ok |-> TRUE, status |-> 200, text |-> <<"{", "}">>]}
         ELSE {Failure(404, <<>>)})

query_resp ==
    /\ Arrived("query")
    /\ Settle("query")
    /\ \E r \in QueryResponses :
          IF ~r.ok
          THEN /\ pc' = "failed"
               /\ error' = "query"
               /\ NoteFailure("query")
               /\ UNCHANGED contextText
          ELSE IF r.text # <<>>
          THEN /\ pc' = "failed"
               /\ error' = "TypeError"
               /\ NoteFailure("query")
               /\ UNCHANGED contextText
          ELSE /\ contextText' =
                     JArr([k \in 1..Cardinality(
                              {d \in store.docs : d[1] = requests[Len(requests)].id})
                           |-> JStr(<<>>)])
               /\ pc' = "generate"
               /\ UNCHANGED <<error, failure>>
    /\ UNCHANGED <<cfgVars, store, collection, requests, absent, console,
                   callNo, resolved, srcVars, embedIdx, chunkObjects,
                   userEmbedding, chunkVars, streamVars>>
    /\ UNCHANGED raceVars

\* {"error":"o"}: the body of an error answer of the generation endpoint.
ErrorBody ==
    <<"{", Quote, "e", "r", "r", "o", "r", Quote, ":", Quote, "o", Quote, "}",
      Newline>>

\* The generate request: fetch rejects, or a response arrives, whose status
\* is not looked at, and its body is read.
generate_resp ==
    /\ Arrived("generate")
    /\ Settle("generate")
    /\ \E kind \in {"netfail", "httperror", "ok"} :
          CASE kind = "netfail" ->
                  /\ pc' = "failed"
                  /\ error' = "generate"
                  /\ NoteFailure("generate")
                  /\ UNCHANGED <<stream, pos, partial>>
            [] kind = "httperror" ->
                  /\ stream' = ErrorBody
                  /\ pos' = 0
                  /\ partial' = <<>>
                  /\ pc' = "stream"
                  /\ NoteFailure("generate")
                  /\ UNCHANGED error
            [] kind = "ok" ->
                  /\ stream' \in GenerateBodies
                  /\ pos' = 0
                  /\ partial' = <<>>
                  /\ pc' = "stream"
                  /\ UNCHANGED <<error, failure>>
    /\ UNCHANGED <<cfgVars, store, collection, requests, absent, console,
                   callNo, resolved, srcVars, embedVars, chunkVars, artifact,
                   appended, warns>>
    /\ UNCHANGED raceVars

(***************************************************************************)
(* SpecChunk: chunkText applied to every text, size and overlap within the *)
(* bounds.                                                                 *)
(***************************************************************************)
Chars == {"a", "b"}

\* The decode loop before the generate response arrives.
StreamIdle ==
    /\ stream = <<>>
    /\ pos = 0
    /\ partial = <<>>
    /\ artifact = <<>>
    /\ appended = <<>>
    /\ warns = 0

\* The callback's own state before it runs: default settings, an empty
\* service, nothing requested, nothing read.
EmptyStore == [tenants |-> {}, dbs |-> {}, cols |-> <<>>, docs |-> {},
               created |-> 0]

NetIdle ==
    /\ requests = <<>>
    /\ inflight = {}
    /\ awaiting = FALSE

HistIdle ==
    /\ failure = NoFailure
    /\ absent = {}
    /\ console = {}
    /\ callNo = 1
    /\ resolved = <<>>
    /\ session = 1
    /\ peer = NoPeer

SrcIdle ==
    /\ activeFile = TRUE
    /\ vault = <<>>
    /\ files = <<>>
    /\ fileIdx = 1
    /\ allText = <<>>
    /\ readLog = <<>>

EmbedIdle ==
    /\ embedIdx = 0
    /\ chunkObjects = <<>>
    /\ userEmbedding = JUndef
    /\ contextText = JUndef

PipeIdle ==
    /\ settings = DEFAULT_SETTINGS
    /\ saved = DEFAULT_SETTINGS
    /\ store = EmptyStore
    /\ collection = NoCollection
    /\ NetIdle
    /\ HistIdle
    /\ SrcIdle
    /\ EmbedIdle

InitChunk ==
    /\ pc = "chunkText"
    /\ error = "none"
    /\ StreamIdle
    /\ PipeIdle
    /\ text \in SeqUpTo(Chars, MaxTextLen)
    /\ size \in 1..MaxSize
    /\ overlap \in 0..MaxOverlap
    /\ start = 0
    /\ chunks = <<>>

NextChunk == chunkText_loop \/ chunkText_return

SpecChunk == InitChunk /\ [][NextChunk]_vars

\* The loop's iterations are not interleaved with anything: a step that can
\* be taken is taken.
SpecChunkFair == SpecChunk /\ WF_vars(NextChunk)

(***************************************************************************)
(* SpecStream: the decode loop applied to every stream of at most MaxLines *)
(* lines and a carry-over, under every split of its bytes into reads.      *)
(***************************************************************************)
ChunkIdle ==
    /\ text = <<>>
    /\ size = 0
    /\ overlap = 0
    /\ start = 0
    /\ chunks = <<>>

InitStream ==
    /\ pc = "stream"
    /\ error = "none"
    /\ ChunkIdle
    /\ PipeIdle
    /\ stream \in Streams
    /\ pos = 0
    /\ partial = <<>>
    /\ artifact = Header
    /\ appended = <<>>
    /\ warns = 0

NextStream == stream_read \/ stream_done \/ stream_error

SpecStream == InitStream /\ [][NextStream]_vars

(***************************************************************************)
(* SpecEnsure: checkCollection called MaxCalls times in sequence with the  *)
(* same arguments against one service, from every state of the service and *)
(* of the stored identifier an earlier run may have left.                  *)
(***************************************************************************)
TargetCollection(id) == [name |-> DEFAULT_SETTINGS.chromaCollectionName, id |-> id]
OtherCollection == [name |-> "other_collection", id |-> "c9"]

\* What an earlier run, or another client, may have left in the service.
Worlds ==
    LET T == {DEFAULT_SETTINGS.chromaTenantName}
        D == {DEFAULT_SETTINGS.chromaDatabaseName}
    IN  {EmptyStore,
         [EmptyStore EXCEPT !.tenants = T],
         [EmptyStore EXCEPT !.tenants = T, !.dbs = D]}
        \cup {[EmptyStore EXCEPT !.tenants = T, !.dbs = D, !.cols = cs] :
                 cs \in {<<TargetCollection("c0")>>,
                         <<TargetCollection("")>>,
                         <<OtherCollection>>,
                         <<OtherCollection, TargetCollection("c0")>>}}

\* The identifier this.settings holds when the plugin has loaded: none, or
\* the one an earlier run stored.
StoredIds == {"", "c0"}

InitEnsure ==
    /\ pc = "col.list"
    /\ error = "none"
    /\ ChunkIdle
    /\ StreamIdle
    /\ store \in Worlds
    /\ \E id \in StoredIds :
          /\ settings = [DEFAULT_SETTINGS EXCEPT !.chromaCollectionId = id]
          /\ saved = settings
    /\ collection = NoCollection
    /\ NetIdle
    /\ HistIdle
    /\ SrcIdle
    /\ EmbedIdle

NextEnsure ==
    \/ fetch_send
    \/ col_list_resp
    \/ col_create_resp
    \/ col_store
    \/ call_again

SpecEnsure == InitEnsure /\ [][NextEnsure]_vars

(***************************************************************************)
(* SpecRace: two sessions of the plugin, each with its own settings, call  *)
(* checkCollection with the same arguments against one service.            *)
(***************************************************************************)
InitRace ==
    /\ pc = "col.list"
    /\ error = "none"
    /\ ChunkIdle
    /\ StreamIdle
    /\ store \in Worlds
    /\ \E id \in StoredIds :
          /\ settings = [DEFAULT_SETTINGS EXCEPT !.chromaCollectionId = id]
          /\ saved = settings
    /\ collection = NoCollection
    /\ NetIdle
    /\ failure = NoFailure
    /\ absent = {}
    /\ console = {}
    /\ callNo = 1
    /\ resolved = <<>>
    /\ SrcIdle
    /\ EmbedIdle
    /\ session = 1
    /\ peer = SessionState(pc, error, settings, saved, collection, inflight,
                           awaiting, failure, absent, console, resolved)

NextRace ==
    \/ fetch_send
    \/ col_list_resp
    \/ col_create_resp
    \/ col_store
    \/ switch_session

SpecRace == InitRace /\ [][NextRace]_vars

(***************************************************************************)
(* SpecUpsert: upsertChunksToCollection applied to every batch of up to    *)
(* MaxBatch chunks whose embeddings are drawn from EmbeddingValues.        *)
(***************************************************************************)
EmbeddingValues ==
    {JUndef, JStr(<<"x">>), JArr(<<>>), JArr(<<JNum>>), JArr(<<JNum, JNum>>),
     JArr(<<JStr(<<"x">>)>>), JArr(<<JNum, JUndef>>)}

Batches ==
    UNION {{[k \in 1..n |-> [id |-> k - 1, text |-> <<"a">>, embedding |-> es[k]]] :
               es \in [1..n -> EmbeddingValues]} : n \in 0..MaxBatch}

InitUpsert ==
    /\ pc = "upsert"
    /\ error = "none"
    /\ ChunkIdle
    /\ StreamIdle
    /\ store \in {w \in Worlds : w.cols # <<>>}
    /\ settings = [DEFAULT_SETTINGS EXCEPT !.chromaCollectionId = "c0"]
    /\ saved = settings
    /\ collection = NoCollection
    /\ NetIdle
    /\ HistIdle
    /\ SrcIdle
    /\ embedIdx = 0
    /\ chunkObjects \in Batches
    /\ userEmbedding = JUndef
    /\ contextText = JUndef

NextUpsert ==
    \/ upsert_validate
    \/ fetch_send
    \/ add_resp

SpecUpsert == InitUpsert /\ [][NextUpsert]_vars

(***************************************************************************)
(* Spec: the command callback from the submitted prompt to its end.        *)
(***************************************************************************)
Init ==
    /\ pc = "idle"
    /\ error = "none"
    /\ ChunkIdle
    /\ StreamIdle
    /\ store \in Worlds
    /\ \E id \in StoredIds :
          /\ settings = [DEFAULT_SETTINGS EXCEPT !.chromaCollectionId = id]
          /\ saved = settings
    /\ collection = NoCollection
    /\ NetIdle
    /\ HistIdle
    /\ activeFile \in BOOLEAN
    /\ vault \in (IF activeFile THEN Vaults ELSE {<<>>})
    /\ files = <<>>
    /\ fileIdx = 1
    /\ allText = <<>>
    /\ readLog = <<>>
    /\ EmbedIdle

Next ==
    \/ submit
    \/ read_file
    \/ create_file
    \/ fetch_send
    \/ tenant_get_resp
    \/ tenant_create_resp
    \/ db_list_resp
    \/ db_create_resp
    \/ col_list_resp
    \/ col_create_resp
    \/ col_store
    \/ chunk_call
    \/ chunkText_loop
    \/ chunkText_return
    \/ embed_begin
    \/ embed_resp
    \/ upsert_validate
    \/ add_resp
    \/ upsert_return
    \/ query_embed_resp
    \/ query_resp
    \/ generate_resp
    \/ stream_read
    \/ stream_done
    \/ stream_error

Spec == Init /\ [][Next]_vars

(***************************************************************************)
(* The chunker's claims.  Window k of the contract starts at               *)
(* (k-1) * (size - overlap) and ends at that plus size, clipped to the     *)
(* text; positions are counted from 0 and a window holds [start, end).     *)
(***************************************************************************)
ValidChunkArgs == size > 0 /\ 0 <= overlap /\ overlap < size

WStart(k) == (k - 1) * (size - overlap)
WEnd(k) == Min(WStart(k) + size, Len(text))

\* Chunk k is the text of window k.
IsWindow(k) == chunks[k] = SubSeq(text, WStart(k) + 1, WEnd(k))

\* C5: for valid (size, overlap) the returned chunks cover the text: every
\* character position lies inside the window of at least one returned chunk,
\* and the chunk holds the text of its window.
C5_ChunksCoverText ==
    (pc = "chunkText_ret" /\ ValidChunkArgs) =>
        /\ \A k \in 1..Len(chunks) : IsWindow(k)
        /\ \A p \in 0..(Len(text) - 1) :
              \E k \in 1..Len(chunks) : WStart(k) <= p /\ p < WEnd(k)

C5_Witness ==
    /\ pc = "chunkText_ret"
    /\ ValidChunkArgs
    /\ overlap > 0
    /\ Len(chunks) >= 3
    /\ Len(chunks[Len(chunks)]) < size

\* C6: called with overlap >= size, chunkText fails fast instead of looping:
\* it never runs a loop iteration, so it pushes no chunk and is never at a
\* start that did not advance.
C6_RejectsOverlapGeSize ==
    overlap >= size => chunks = <<>>

\* C7: for valid (size, overlap) chunkText terminates; it returns when and
\* only when start >= length(text) (the window before the last start was
\* still inside the text), no chunk for the empty text and at least one
\* chunk for a non-empty text.
C7_ReturnState ==
    (pc = "chunkText_ret" /\ ValidChunkArgs) =>
        /\ start >= Len(text)
        /\ start = Len(chunks) * (size - overlap)
        /\ (chunks # <<>> => start - (size - overlap) < Len(text))
        /\ (Len(text) = 0 => chunks = <<>>)
        /\ (Len(text) > 0 => Len(chunks) >= 1)

C7_Terminates ==
    /\ []C7_ReturnState
    /\ [][(pc = "chunkText" /\ ValidChunkArgs /\ start < Len(text))
            => (pc' = "chunkText" /\ start' > start)]_vars
    /\ <>(ValidChunkArgs => pc = "chunkText_ret")

C7_Witness ==
    /\ pc = "chunkText_ret"
    /\ ValidChunkArgs
    /\ Len(chunks) >= 3
    /\ start > Len(text)

\* Positions a .. a+l-1 lie inside window k.
InsideWindow(a, l, k) == WStart(k) <= a /\ a + l <= WEnd(k)
\* Some position of a .. a+l-1 lies inside window k.
MeetsWindow(a, l, k) == a < WEnd(k) /\ a + l > WStart(k)

\* Some character of positions a .. a+l-1 occurs somewhere in chunk k.
SharesCharacter(a, l, k) ==
    \E p \in a..(a + l - 1), q \in 1..Len(chunks[k]) : chunks[k][q] = text[p + 1]

\* C8 as stated: every substring of length <= size - overlap fully inside a
\* window also appears, fully or partially, in the following window (at its
\* own position, or at least one of its characters anywhere in that chunk).
C8_ShortSubstringInNextWindow ==
    (pc = "chunkText_ret" /\ ValidChunkArgs) =>
        \A k \in 1..(Len(chunks) - 1) :
            \A a \in 0..Len(text), l \in 1..(size - overlap) :
                InsideWindow(a, l, k) =>
                    MeetsWindow(a, l, k + 1) \/ SharesCharacter(a, l, k + 1)

\* C8 as amended: every substring of length > size - overlap fully inside a
\* window also appears, at least partially, in the following window, whose
\* chunk holds the characters the two share.
C8_LongSubstringInNextWindow ==
    (pc = "chunkText_ret" /\ ValidChunkArgs) =>
        \A k \in 1..(Len(chunks) - 1) :
            \A a \in 0..Len(text), l \in (size - overlap + 1)..size :
                InsideWindow(a, l, k) =>
                    /\ MeetsWindow(a, l, k + 1)
                    /\ IsWindow(k) /\ IsWindow(k + 1)
                    /\ \A p \in Max(a, WStart(k + 1))..(a + l - 1) :
                          chunks[k + 1][p - WStart(k + 1) + 1]
                              = chunks[k][p - WStart(k) + 1]

C8_Witness ==
    /\ pc = "chunkText_ret"
    /\ ValidChunkArgs
    /\ overlap >= 1
    /\ Len(chunks) >= 2
    /\ \E a \in 0..Len(text), l \in (size - overlap + 1)..size :
          InsideWindow(a, l, 1)

(***************************************************************************)
(* The decoder's claims.                                                   *)
(***************************************************************************)
\* The newline-terminated lines of a byte sequence: all but the last piece.
CompleteLines(bytes) ==
    LET ls == SplitLines(bytes) IN SubSeq(ls, 1, Len(ls) - 1)

\* The line is a JSON value whose response is a non-empty string.
HasFragment(line) ==
    LET d == JSONparse(line)
    IN  /\ d.ok
        /\ GetProperty(d.val, ResponseKey).t = "str"
        /\ GetProperty(d.val, ResponseKey).s # <<>>
FragmentOf(line) == GetProperty(JSONparse(line).val, ResponseKey).s

\* The line is not blank and is no JSON value.
Malformed(line) == ~IsBlank(line) /\ ~JSONparse(line).ok

\* The fragments of a sequence of lines, in order.
RECURSIVE FragmentsOf(_)
FragmentsOf(ls) ==
    IF ls = <<>> THEN <<>>
    ELSE (IF HasFragment(Head(ls)) THEN <<FragmentOf(Head(ls))>> ELSE <<>>)
             \o FragmentsOf(Tail(ls))

\* {"response":"ab"}\n{"respon
ExampleStream == LineAB \o <<Newline>> \o LineTruncated

\* C9: at end-of-stream the carry-over after the last newline is discarded:
\* whatever the reads were, the fragments appended are those of the
\* newline-terminated lines alone, and the example stream has yielded
\* exactly the one fragment "ab".
C9_CarryOverDiscarded ==
    pc = "done" =>
        /\ appended = FragmentsOf(CompleteLines(stream))
        /\ (stream = ExampleStream => appended = << <<"a", "b">> >>)

C9_Witness ==
    /\ pc = "done"
    /\ stream = ExampleStream
    /\ partial = LineTruncated
    /\ appended = << <<"a", "b">> >>

\* The number of lines among the first k of ls that have a fragment.
FragmentsUpTo(ls, k) == Cardinality({i \in 1..k : HasFragment(ls[i])})

\* C10: a line that is not valid JSON does not abort the stream: no parse
\* error leaves the loop (the loop fails on a transport error only), the
\* line is logged and emits nothing, and every later valid line with a
\* non-empty response has its fragment appended, at its place.
C10_MalformedLineSkipped ==
    LET ls == CompleteLines(SubSeq(stream, 1, pos))
    IN  /\ error # "SyntaxError"
        /\ (pc = "failed" => error = "GenerationError")
        /\ warns = Cardinality({k \in 1..Len(ls) : Malformed(ls[k])})
        /\ Len(appended) = FragmentsUpTo(ls, Len(ls))
        /\ \A k \in 1..Len(ls) : \A j \in (k + 1)..Len(ls) :
              (Malformed(ls[k]) /\ HasFragment(ls[j])) =>
                  appended[FragmentsUpTo(ls, j)] = FragmentOf(ls[j])

C10_Witness ==
    /\ pc = "stream"
    /\ pos = Len(stream)
    /\ stream = LineTruncated \o <<Newline>> \o LineAB \o <<Newline>>
    /\ warns = 1
    /\ appended = << <<"a", "b">> >>

(***************************************************************************)
(* The claims about provisioning.                                          *)
(***************************************************************************)
\* The requests issued so far whose operation is op.
RequestsOf(op) == {k \in 1..Len(requests) : requests[k].op = op}

\* The calls of checkCollection that stored an identifier stored the same.
SameResolvedId ==
    \A a, b \in 1..Len(resolved) :
        (resolved[a] # "none" /\ resolved[b] # "none") =>
            resolved[a] = resolved[b]

MalformedEmbedding(e) ==
    \/ e.t # "arr"
    \/ e.m = <<>>
    \/ \E k \in 1..Len(e.m) : e.m[k].t # "num"

MalformedBatch ==
    \E k \in 1..Len(chunkObjects) : MalformedEmbedding(chunkObjects[k].embedding)

\* C4: when any chunk of the batch has a missing, empty or non-numeric
\* embedding, the upsert fails with the validation error, no request is
\* ever issued and no document of the batch is written.
C4_MalformedBatchNoRequest ==
    MalformedBatch =>
        /\ requests = <<>>
        /\ inflight = {}
        /\ store.docs = {}
        /\ pc \in {"upsert", "failed"}
        /\ (pc = "failed" => error = "Invalid embedding")

C4_Witness ==
    /\ pc = "failed"
    /\ error = "Invalid embedding"
    /\ Len(chunkObjects) = 2
    /\ ~MalformedEmbedding(chunkObjects[1].embedding)
    /\ MalformedEmbedding(chunkObjects[2].embedding)
    /\ requests = <<>>
    /\ store.docs = {}

ProvisioningOps ==
    {"tenant.get", "tenant.create", "db.list", "db.create", "col.list",
     "col.create"}

\* C1: once a step has failed the invocation is Failed and no request is
\* issued after the failed one: no later step runs.
C1_FailureEndsInvocation ==
    failure.op # "none" =>
        /\ pc = "failed"
        /\ Len(requests) = failure.nreq

\* The resource a creation request creates.
CreatedBy(op) ==
    CASE op = "tenant.create" -> "tenant"
      [] op = "db.create" -> "db"
      [] op = "col.create" -> "col"

\* C2: a creation request is issued only for a resource found absent (a
\* not-found status on the fetch, or a listing without it), and a failure of
\* a provisioning request with any other status reaches the caller and is
\* not followed by a creation request.
C2_CreateOnlyWhenAbsent ==
    /\ \A k \in 1..Len(requests) :
          requests[k].op \in {"tenant.create", "db.create", "col.create"} =>
              CreatedBy(requests[k].op) \in absent
    /\ failure.op \in ProvisioningOps =>
          /\ pc = "failed"
          /\ \A k \in (failure.nreq + 1)..Len(requests) :
                requests[k].op \notin {"tenant.create", "db.create", "col.create"}

(***************************************************************************)
(* The decoder's claims about the fragments and the output file.           *)
(***************************************************************************)
\* C11: of the complete lines read so far, each line that parses and
\* carries a non-empty response has yielded exactly one fragment, with that
\* text, every other line none, and the fragments are in the order of their
\* lines.
C11_FragmentsInLineOrder ==
    LET ls == CompleteLines(SubSeq(stream, 1, pos))
    IN  /\ Len(appended) = FragmentsUpTo(ls, Len(ls))
        /\ \A k \in 1..Len(ls) :
              HasFragment(ls[k]) =>
                  appended[FragmentsUpTo(ls, k)] = FragmentOf(ls[k])
        /\ \A k \in 1..Len(appended) : appended[k] # <<>>

C11_Witness ==
    /\ pc = "stream"
    /\ stream = LineB \o <<Newline>> \o LineAB \o <<Newline>> \o LineB
    /\ pos = Len(stream)
    /\ appended = << <<"b">>, <<"a", "b">> >>

RECURSIVE Flatten(_)
Flatten(ss) == IF ss = <<>> THEN <<>> ELSE Head(ss) \o Flatten(Tail(ss))

IsPrefix(a, b) == Len(a) <= Len(b) /\ SubSeq(b, 1, Len(a)) = a

\* C12: after every read the file holds the header followed by the
\* fragments decoded so far, in order, and every step leaves the earlier
\* content as a prefix of the later one, also the step that fails.
C12_ArtifactGrowsByAppending ==
    /\ [](artifact = Header \o Flatten(appended))
    /\ [][IsPrefix(artifact, artifact')]_vars

C12_Witness ==
    /\ pc = "failed"
    /\ error = "GenerationError"
    /\ pos < Len(stream)
    /\ appended = << <<"a", "b">>, <<"b">> >>
    /\ artifact = Header \o <<"a", "b", "b">>

\* C18: whatever the reads were, the decoder's state after pos bytes is the
\* one a single read of those bytes gives: the fragments, the file and the
\* warnings of the newline-terminated lines, and the piece after the last
\* newline as the carry-over.
C18_FramingIndependent ==
    LET prefix == SubSeq(stream, 1, pos)
        pieces == SplitLines(prefix)
        one == ProcessLines([out |-> Header, app |-> <<>>, warns |-> 0,
                             thrown |-> FALSE],
                            SubSeq(pieces, 1, Len(pieces) - 1))
    IN  /\ appended = one.app
        /\ appended = FragmentsOf(SubSeq(pieces, 1, Len(pieces) - 1))
        /\ artifact = one.out
        /\ warns = one.warns
        /\ partial = pieces[Len(pieces)]

\* A read has ended inside the second line: its head is carried over.
C18_Witness ==
    /\ pc = "stream"
    /\ stream = LineAB \o <<Newline>> \o LineB \o <<Newline>>
    /\ pos = Len(LineAB) + 4
    /\ partial = SubSeq(LineB, 1, 3)
    /\ appended = << <<"a", "b">> >>

(***************************************************************************)
(* The claims about the callback as a whole.                               *)
(***************************************************************************)
\* C13: no add or query request carries a vector that is absent, empty or
\* holds a value that is no number: the embedding that returned it has
\* failed the invocation before.
C13_NoRequestWithMalformedVector ==
    \A k \in 1..Len(requests) :
        requests[k].op \in {"add", "query"} =>
            \A j \in 1..Len(requests[k].vectors) :
                ~MalformedEmbedding(requests[k].vectors[j])

\* The texts of the files of fs that log says could be read, in file order.
RECURSIVE ReadableText(_, _)
ReadableText(fs, log) ==
    IF log = <<>> THEN <<>>
    ELSE (IF Head(log) THEN FileText(Head(fs)) ELSE <<>>)
             \o ReadableText(Tail(fs), Tail(log))

\* C14: a file that cannot be read is skipped and logged: the text holds
\* the texts of the readable files in file order, every file of the folder
\* is tried, no read failure fails the invocation, and the steps that
\* follow work on that text.
C14_ReadFailureIsolated ==
    /\ pc # "idle" /\ activeFile =>
          /\ Len(readLog) = fileIdx - 1
          /\ allText = ReadableText(files, readLog)
          /\ (FALSE \in {readLog[k] : k \in 1..Len(readLog)}) <=>
                 ("Error reading" \in console)
    /\ pc \notin {"idle", "read"} /\ activeFile => Len(readLog) = Len(files)
    /\ pc = "read" => error = "none"
    /\ pc \in {"chunkText", "chunkText_ret", "embed", "upsert"} => text = allText

C14_Witness ==
    /\ files = <<PdfB, NoteA>>
    /\ readLog = <<FALSE, TRUE>>
    /\ allText = FileText(NoteA)
    /\ pc = "embed"
    /\ chunks = <<FileText(NoteA)>>

(***************************************************************************)
(* The claim about two sessions.                                           *)
(***************************************************************************)
\* How many of the two sessions have been told by their listing that the
\* collection is absent, and how many of those have yet to send their
\* creation request.
SawAbsent ==
    (IF "col" \in absent THEN 1 ELSE 0) + (IF "col" \in peer.absent THEN 1 ELSE 0)
YetToCreate ==
    (IF pc = "col.create" /\ ~awaiting THEN 1 ELSE 0)
        + (IF peer.pc = "col.create" /\ ~peer.awaiting THEN 1 ELSE 0)

\* C15: nothing orders the two sessions: each session whose listing lacked
\* the collection issues its creation request, whatever the other session
\* has done since, so both create when both listed before either created;
\* a session creates only after such a listing, and none does when the
\* service held the collection from the start.
C15_SessionsRace ==
    /\ Cardinality(RequestsOf("col.create")) = SawAbsent - YetToCreate
    /\ (store.created = 0
          /\ \E k \in 1..Len(store.cols) :
                store.cols[k].name = DEFAULT_SETTINGS.chromaCollectionName)
            => RequestsOf("col.create") = {}

\* Both sessions saw the collection absent, both have issued a creation
\* request, and the service holds two collections of the name.
C15_Witness ==
    /\ "col" \in absent
    /\ "col" \in peer.absent
    /\ Cardinality(RequestsOf("col.create")) = 2
    /\ Cardinality({k \in 1..Len(store.cols) :
           store.cols[k].name = DEFAULT_SETTINGS.chromaCollectionName}) = 2
    /\ pc = "col_ret"
    /\ peer.pc = "col_ret"
    /\ resolved # peer.resolved

(***************************************************************************)
(* The claims about the order of the steps.                                *)
(***************************************************************************)
\* The place of a request's step in the order the contract gives, and in
\* the order of the callback's statements.
ContractRank(op) ==
    CASE op = "embed" -> 1
      [] op \in ProvisioningOps -> 2
      [] op = "add" -> 3
      [] op = "embed.query" -> 4
      [] op = "query" -> 5
      [] op = "generate" -> 6
CallbackRank(op) ==
    CASE op \in {"tenant.get", "tenant.create"} -> 1
      [] op \in {"db.list", "db.create"} -> 2
      [] op \in {"col.list", "col.create"} -> 3
      [] op = "embed" -> 4
      [] op = "add" -> 5
      [] op = "embed.query" -> 6
      [] op = "query" -> 7
      [] op = "generate" -> 8

ChunkingOrEmbedding == pc \in {"chunkText", "chunkText_ret", "embed"}

EarlierOf(op, k) == {j \in RequestsOf(op) : j < k}

\* C17: at most one request is in flight, the one the callback is waiting
\* for; an add request is issued after checkCollection's listing has been
\* answered, a query request after the add request has been answered and
\* its documents are stored, and a generate request after the query has
\* returned its documents.
C17_StrictlySequential ==
    /\ Cardinality(inflight) <= 1
    /\ awaiting <=> inflight # {}
    /\ awaiting => inflight = {pc} /\ requests[Len(requests)].op = pc
    /\ \A k \in 1..Len(requests) :
          /\ requests[k].op = "add" =>
                /\ EarlierOf("col.list", k) # {}
                /\ Cardinality(EarlierOf("embed", k)) = Len(chunks)
          /\ requests[k].op = "query" =>
                /\ EarlierOf("embed.query", k) # {}
                /\ chunks # <<>> =>
                      /\ EarlierOf("add", k) # {}
                      /\ \A j \in EarlierOf("add", k) :
                            \A c \in 1..Len(chunkObjects) :
                               <<requests[j].id, chunkObjects[c].id>> \in store.docs
          /\ requests[k].op = "generate" =>
                /\ EarlierOf("query", k) # {}
                /\ contextText # JUndef

C17_Witness ==
    /\ pc = "generate"
    /\ awaiting
    /\ inflight = {"generate"}
    /\ Cardinality(RequestsOf("add")) = 1
    /\ Cardinality(store.docs) = 2

(***************************************************************************)
(* The claims about the settings.                                          *)
(***************************************************************************)
\* C19: a step of the callback changes this.settings, or what is saved of
\* it, only where checkCollection stores the identifier of a collection
\* that has one, and then only the identifier changes: the names of tenant,
\* database and collection stay; a listing or creation that fails, and a
\* collection without an id, leave the settings as they were.
C19_OnlyCollectionIdWritten ==
    [][/\ settings'.chromaTenantName = settings.chromaTenantName
       /\ settings'.chromaDatabaseName = settings.chromaDatabaseName
       /\ settings'.chromaCollectionName = settings.chromaCollectionName
       /\ (settings' # settings \/ saved' # saved) =>
              /\ pc = "col.store"
              /\ collection.id # ""
              /\ settings' = [settings EXCEPT !.chromaCollectionId = collection.id]
              /\ saved' = settings'
       /\ (pc \in {"col.list", "col.create"} /\ pc' = "col_ret") =>
              settings' = settings /\ saved' = saved
       /\ (pc = "col.store" /\ collection.id = "") =>
              settings' = settings /\ saved' = saved]_vars

\* checkCollection has stored the identifier of the collection it created.
C19_Witness ==
    /\ pc = "col_ret"
    /\ settings = [DEFAULT_SETTINGS EXCEPT !.chromaCollectionId = "c1"]
    /\ saved = settings
    /\ resolved = <<"c1">>
    /\ store.created = 1

\* C20: the path of every add and query request holds a collection
\* identifier that is not empty and is the one checkCollection has resolved
\* in this invocation.
C20_RequestsUseResolvedId ==
    \A k \in 1..Len(requests) :
        requests[k].op \in {"add", "query"} =>
            /\ requests[k].id # ""
            /\ resolved # <<>>
            /\ requests[k].id = resolved[1]

====
